---- MODULE Spec2Model ----
(***************************************************************************)
(* PMU based energy accounting and power limiting (kernel/sched/power.c,   *)
(* kernel/sched/armpmu_lib.c).                                             *)
(*                                                                         *)
(* Three specifications share the variables:                               *)
(*   Spec      the per-CPU tick handler power_evaluate_pmu with the        *)
(*             counter bank, the clock and user-mode interference;         *)
(*   SpecGov   the cpufreq governor callback and the powerlimitd thread;   *)
(*   SpecEval  evaluate_model as a function of a model and a bank.         *)
(***************************************************************************)
EXTENDS Integers, Sequences, FiniteSets, TLC

\* ------------------------------------------------------------ bounds

\* Ticks taken in one behaviour of Spec.
MaxTicks == 3
\* Events the hardware may count between two resets of one bank.
MaxCount == 1
\* The clock stops advancing past this many jiffies.
MaxJiffies == 210
\* Loop iterations one powerlimitd thread starts in one behaviour.
MaxIter == 1
\* kthread_run calls in one behaviour.
MaxThreads == 2
\* Largest counter value drawn for one term in SpecEval.
MaxTermCount == 2

\* ------------------------------------------------------------ constants

POWER_UPDATE_INTERVAL == 1000
EM_PMCCNTR == -1
EM_LAST == -2

\* Event numbers of the ARMv7 PMU (armpmu_lib.h).
BR_MIS_PRED == 16
L1D_TLB_REFILL == 5
L2D_CACHE_REFILL == 23
L2D_CACHE_WB == 24
ASE_SPEC == 116
DP_SPEC == 115
VFP_SPEC == 117
\* An event that belongs to neither model; what user mode may program.
NO_EVENT == 0

\* jiffies_to_msecs with HZ = 100.
MSEC_PER_JIFFY == 10

\* The CPUs of the model: two little cores and two big ones.
CPUS == {2, 3, 4, 5}
\* The sets of online CPUs a behaviour of Spec may start with: one little
\* core or one big core (the tick handler touches the data of its own CPU only).
OnlineSets == {{3}, {4}}
\* Counter slots of a bank and the slot indices a 5 bit selector can name.
Slots == 0 .. 5

IS_A7(cpu) == cpu < 4

\* EM_TO_INT(x) = (s64)(x / 1e-12), the weights as the compiler folds them.
energy_model_a15 ==
    << [event |-> ASE_SPEC,         weight |-> 6448446],
       [event |-> BR_MIS_PRED,      weight |-> -131163],
       [event |-> DP_SPEC,          weight |-> 246],
       [event |-> L2D_CACHE_REFILL, weight |-> 1581324],
       [event |-> L2D_CACHE_WB,     weight |-> -8824135],
       [event |-> EM_PMCCNTR,       weight |-> 760],
       [event |-> VFP_SPEC,         weight |-> 1584],
       [event |-> EM_LAST,          weight |-> 0] >>

energy_model_a7 ==
    << [event |-> BR_MIS_PRED,      weight |-> 616],
       [event |-> L1D_TLB_REFILL,   weight |-> 32521],
       [event |-> L2D_CACHE_REFILL, weight |-> -55918],
       [event |-> L2D_CACHE_WB,     weight |-> 181504],
       [event |-> EM_PMCCNTR,       weight |-> 101],
       [event |-> EM_LAST,          weight |-> 0] >>

energy_model(cpu) == IF IS_A7(cpu) THEN energy_model_a7 ELSE energy_model_a15

\* ------------------------------------------------------------ arithmetic

Abs(x) == IF x < 0 THEN -x ELSE x

\* Signed 64 bit division: the quotient is truncated toward zero.
div64_s64(dividend, divisor) ==
    LET q == Abs(dividend) \div Abs(divisor)
    IN  IF (dividend < 0) # (divisor < 0) THEN -q ELSE q

jiffies_to_msecs(j) == MSEC_PER_JIFFY * j

\* ------------------------------------------------------------ counter bank
\* A bank is a record
\*   userenr  PMUSERENR (0 or 1)
\*   e        PMCR.E, the run bit
\*   evtype   the event programmed into each slot
\*   evcnt    the count of each slot
\*   ccnt     PMCCNTR

\* MRC PMCR: the run bit; the reset bits P and C read as zero.
MRC_PMCR(bank) == bank.e

\* MCR PMCR: bit 0 is the run bit, bit 1 resets the event counters, bit 2
\* resets the cycle counter.
MCR_PMCR(bank, cr) ==
    [bank EXCEPT
        !.e = cr % 2,
        !.evcnt = IF (cr \div 2) % 2 = 1 THEN [s \in Slots |-> 0] ELSE @,
        !.ccnt = IF (cr \div 4) % 2 = 1 THEN 0 ELSE @]

OrBit(cr, bit) == IF (cr \div bit) % 2 = 1 THEN cr ELSE cr + bit
ClearBit(cr, bit) == IF (cr \div bit) % 2 = 1 THEN cr - bit ELSE cr

enable_pmn(bank) == MCR_PMCR(bank, OrBit(MRC_PMCR(bank), 1))

disable_pmn(bank) == MCR_PMCR(bank, ClearBit(MRC_PMCR(bank), 1))

\* The selector keeps five bits; a slot the bank does not have ignores writes
\* and reads as zero.
set_pmn(bank, counter, event) ==
    LET sel == counter % 32
    IN  IF sel \in Slots THEN [bank EXCEPT !.evtype[sel] = event] ELSE bank

read_pmn(bank, counter) ==
    LET sel == counter % 32
    IN  IF sel \in Slots THEN bank.evcnt[sel] ELSE 0

reset_pmn(bank) == MCR_PMCR(bank, OrBit(MRC_PMCR(bank), 2))

reset_ccnt(bank) == MCR_PMCR(bank, OrBit(MRC_PMCR(bank), 4))

\* ------------------------------------------------------------ model evaluator

RECURSIVE InitLoop(_, _, _, _)
InitLoop(bank, model, i, j) ==
    IF model[i + 1].event = EM_LAST THEN bank
    ELSE IF model[i + 1].event = EM_PMCCNTR THEN InitLoop(bank, model, i + 1, -1)
    ELSE InitLoop(set_pmn(bank, i + j, model[i + 1].event), model, i + 1, j)

\* initialize_pmu without the index shift behind the cycle-counter term.
RECURSIVE InitLoop_NoShift(_, _, _)
InitLoop_NoShift(bank, model, i) ==
    IF model[i + 1].event = EM_LAST THEN bank
    ELSE IF model[i + 1].event = EM_PMCCNTR THEN InitLoop_NoShift(bank, model, i + 1)
    ELSE InitLoop_NoShift(set_pmn(bank, i, model[i + 1].event), model, i + 1)

initialize_pmu_NoShift(bank, model) == InitLoop_NoShift(bank, model, 0)

initialize_pmu(bank, model) == InitLoop(bank, model, 0, 0)

RECURSIVE EvalLoop(_, _, _, _, _)
EvalLoop(bank, model, i, j, result) ==
    IF model[i + 1].event = EM_LAST THEN result
    ELSE IF model[i + 1].event = EM_PMCCNTR
         THEN EvalLoop(bank, model, i + 1, -1,
                       result + model[i + 1].weight * bank.ccnt)
    ELSE EvalLoop(bank, model, i + 1, j,
                  result + model[i + 1].weight * read_pmn(bank, i + j))

\* evaluate_model without the index shift behind the cycle-counter term.
RECURSIVE EvalLoop_NoShift(_, _, _, _)
EvalLoop_NoShift(bank, model, i, result) ==
    IF model[i + 1].event = EM_LAST THEN result
    ELSE IF model[i + 1].event = EM_PMCCNTR
         THEN EvalLoop_NoShift(bank, model, i + 1,
                               result + model[i + 1].weight * bank.ccnt)
    ELSE EvalLoop_NoShift(bank, model, i + 1,
                          result + model[i + 1].weight * read_pmn(bank, i))

evaluate_model_NoShift(bank, model) == EvalLoop_NoShift(bank, model, 0, 0)

evaluate_model(bank, model) == EvalLoop(bank, model, 0, 0, 0)

\* ------------------------------------------------------------ state

VARIABLES
    usage,        \* per CPU current_energy_usage: joule, watt, time, disabled
    power_limit,  \* per CPU power_limit
    pmu,          \* per CPU counter bank
    jiffies,      \* the clock
    deltas,       \* history: per CPU, the sum of the evaluate results of the
                  \* ticks since the last window close or (re)initialization
    last,         \* history: the last step and the branch it took
    nticks,       \* history: ticks taken so far
    wchange,      \* history: per CPU, the jiffies of the last tick that changed
                  \* the value of watt (-1: none yet)
    wclose,       \* history: per CPU, the jiffies of the last tick that closed
                  \* a window (-1: none yet)
    online,       \* the CPUs that are online: the scheduler ticks these
    thread,       \* the static task pointer of power.c (0 is NULL)
    task,         \* the kernel threads created by kthread_run
    gov,          \* per policy: where its governor callback stands
    requests,     \* per policy: the frequency requests since its last start
    ev,           \* SpecEval: a model, the events that occurred, the result
    sysfs         \* the last call of a sysfs handler or query and its result

tickvars == <<usage, power_limit, pmu, jiffies, deltas, last, nticks,
              wchange, wclose, online>>
govvars == <<thread, task, gov, requests>>
vars == <<usage, power_limit, pmu, jiffies, deltas, last, nticks,
          wchange, wclose, online, thread, task, gov, requests, ev, sysfs>>

NoOp == [op |-> "none", cpu |-> 0, branch |-> "none", closed |-> FALSE,
         stopped |-> FALSE,
         delta |-> 0]

BootBank(run) ==
    [userenr |-> 0, e |-> run,
     evtype |-> [s \in Slots |-> NO_EVENT],
     evcnt |-> [s \in Slots |-> 0],
     ccnt |-> 0]

ZeroUsage == [joule |-> 0, watt |-> 0, time |-> 0, disabled |-> FALSE]

\* Static per-CPU data is zero; the run bit of an online bank is whatever the
\* boot code left.
TickInit ==
    /\ usage = [c \in CPUS |-> ZeroUsage]
    /\ power_limit = [c \in CPUS |-> 0]
    /\ online \in OnlineSets
    /\ \E run \in {0, 1} :
          pmu = [c \in CPUS |-> BootBank(IF c \in online THEN run ELSE 0)]
    /\ jiffies = 0
    /\ deltas = [c \in CPUS |-> 0]
    /\ last = NoOp
    /\ nticks = 0
    /\ wchange = [c \in CPUS |-> -1]
    /\ wclose = [c \in CPUS |-> -1]

\* ------------------------------------------------------------ tick handler

\* The window test with >= for >.
WindowClosed_AtInterval(u, now) ==
    jiffies_to_msecs(now - u.time) >= POWER_UPDATE_INTERVAL

\* The window test without the interval.
WindowClosed_NoInterval(u, now) ==
    jiffies_to_msecs(now - u.time) > 0

\* Lines 264-265: the window is over.
WindowClosed(u, now) ==
    jiffies_to_msecs(now - u.time) > POWER_UPDATE_INTERVAL

\* The window close that carries the integral into the next window.
EvaluateBranch_CarriesIntegral(u, delta, now) ==
    LET joule == u.joule + delta
        time_diff == jiffies_to_msecs(now - u.time)
    IN  IF WindowClosed(u, now)
        THEN [u EXCEPT !.watt = div64_s64(joule, time_diff),
                       !.joule = joule,
                       !.time = now]
        ELSE [u EXCEPT !.joule = joule]

\* The window close that does not stamp window_start.
EvaluateBranch_NoStamp(u, delta, now) ==
    LET joule == u.joule + delta
        time_diff == jiffies_to_msecs(now - u.time)
    IN  IF WindowClosed(u, now)
        THEN [u EXCEPT !.watt = div64_s64(joule, time_diff),
                       !.joule = 0]
        ELSE [u EXCEPT !.joule = joule]

\* Lines 262-269: the bank was running; delta is what evaluate_model returned.
EvaluateBranch(u, delta, now) ==
    LET joule == u.joule + delta
        time_diff == jiffies_to_msecs(now - u.time)
    IN  IF WindowClosed(u, now)
        THEN [u EXCEPT !.watt = div64_s64(joule, time_diff),
                       !.joule = 0,
                       !.time = now]
        ELSE [u EXCEPT !.joule = joule]

\* Lines 272-276: the bank was not running.
InitializeBranch(u, now) == [u EXCEPT !.joule = 0, !.watt = 0, !.time = now]

\* The user-access exit that leaves the integral.
UserAccessBranch_KeepsJoule(u) == [u EXCEPT !.watt = 0, !.disabled = TRUE]

\* Lines 246-247.
UserAccessBranch(u) == [u EXCEPT !.watt = 0, !.joule = 0, !.disabled = TRUE]

\* The user-access exit that falls through to the restart of the bank.
UserAccessExit_FallsThrough(bank) == enable_pmn(reset_ccnt(reset_pmn(bank)))

\* Lines 248 and 283: goto out passes over the restart of the bank.
UserAccessExit(bank) == bank

\* The recovery without disable_pmn.
RecoverBank_NoDisable(u, bank) == bank

\* Lines 250-252.
RecoverBank(u, bank) == IF u.disabled THEN disable_pmn(bank) ELSE bank

\* The restart without reset_ccnt.
RestartBank_NoCycleReset(bank) == enable_pmn(reset_pmn(bank))

\* Lines 279-281.
RestartBank(bank) == enable_pmn(reset_ccnt(reset_pmn(bank)))

power_evaluate_pmu(cpu) ==
    LET u == usage[cpu]
        b0 == pmu[cpu]
    IN  IF b0.userenr # 0
        THEN /\ usage' = [usage EXCEPT ![cpu] = UserAccessBranch(u)]
             /\ pmu' = [pmu EXCEPT ![cpu] = UserAccessExit(b0)]
             /\ deltas' = [deltas EXCEPT ![cpu] = 0]
             /\ last' = [op |-> "tick", cpu |-> cpu, branch |-> "user",
                         closed |-> FALSE, stopped |-> FALSE, delta |-> 0]
        ELSE LET b1 == RecoverBank(u, b0)
                 u1 == [u EXCEPT !.disabled = FALSE]
                 cr == MRC_PMCR(b1)
             IN  IF cr % 2 = 1
                 THEN LET b2 == MCR_PMCR(b1, ClearBit(cr, 1))
                          d == evaluate_model(b2, energy_model(cpu))
                          cl == WindowClosed(u1, jiffies)
                      IN  /\ usage' = [usage EXCEPT ![cpu] =
                                          EvaluateBranch(u1, d, jiffies)]
                          /\ pmu' = [pmu EXCEPT ![cpu] = RestartBank(b2)]
                          /\ deltas' = [deltas EXCEPT ![cpu] =
                                           IF cl THEN 0 ELSE @ + d]
                          /\ last' = [op |-> "tick", cpu |-> cpu,
                                      branch |-> "eval", closed |-> cl,
                                      stopped |-> FALSE,
                                      delta |-> d]
                 ELSE LET b2 == initialize_pmu(b1, energy_model(cpu))
                      IN  /\ usage' = [usage EXCEPT ![cpu] =
                                          InitializeBranch(u1, jiffies)]
                          /\ pmu' = [pmu EXCEPT ![cpu] = RestartBank(b2)]
                          /\ deltas' = [deltas EXCEPT ![cpu] = 0]
                          /\ last' = [op |-> "tick", cpu |-> cpu,
                                      branch |-> "init", closed |-> FALSE,
                                      stopped |-> b1 # b0,
                                      delta |-> 0]

\* The scheduler calls the entry point on a CPU.
Tick(cpu) ==
    /\ nticks < MaxTicks
    /\ power_evaluate_pmu(cpu)
    /\ nticks' = nticks + 1
    /\ wchange' = IF usage'[cpu].watt # usage[cpu].watt
                  THEN [wchange EXCEPT ![cpu] = jiffies] ELSE wchange
    /\ wclose' = IF last'.closed
                 THEN [wclose EXCEPT ![cpu] = jiffies] ELSE wclose
    /\ UNCHANGED <<power_limit, jiffies, online, govvars, ev, sysfs>>

\* ------------------------------------------------------------ environment

\* Time passes: a window's length, or a jiffy more.
ClockSteps == {100, 101}

Advance(step) ==
    /\ jiffies + step <= MaxJiffies
    /\ jiffies' = jiffies + step
    /\ last' = NoOp
    /\ UNCHANGED <<usage, power_limit, pmu, deltas, nticks, wchange, wclose,
                   online, govvars, ev, sysfs>>

Counted(bank) ==
    bank.ccnt + bank.evcnt[0] + bank.evcnt[1] + bank.evcnt[2]
              + bank.evcnt[3] + bank.evcnt[4] + bank.evcnt[5]

\* The slots whose events occur in Spec: each model has a term of positive
\* and a term of negative weight among them.
CountedSlots == {1, 2}

\* A running bank counts an event in one slot.
CountEvent(cpu, s) ==
    /\ pmu[cpu].e = 1
    /\ Counted(pmu[cpu]) < MaxCount
    /\ pmu' = [pmu EXCEPT ![cpu].evcnt[s] = @ + 1]
    /\ last' = NoOp
    /\ UNCHANGED <<usage, power_limit, jiffies, deltas, nticks, wchange, wclose,
                   online, govvars, ev, sysfs>>

\* A running bank counts a cycle.
CountCycle(cpu) ==
    /\ pmu[cpu].e = 1
    /\ Counted(pmu[cpu]) < MaxCount
    /\ pmu' = [pmu EXCEPT ![cpu].ccnt = @ + 1]
    /\ last' = NoOp
    /\ UNCHANGED <<usage, power_limit, jiffies, deltas, nticks, wchange, wclose,
                   online, govvars, ev, sysfs>>

\* Something sets PMUSERENR: user mode may now drive the bank.
UserEnable(cpu) ==
    /\ pmu[cpu].userenr = 0
    /\ pmu' = [pmu EXCEPT ![cpu].userenr = 1]
    /\ last' = NoOp
    /\ UNCHANGED <<usage, power_limit, jiffies, deltas, nticks, wchange, wclose,
                   online, govvars, ev, sysfs>>

UserRevoke(cpu) ==
    /\ pmu[cpu].userenr = 1
    /\ pmu' = [pmu EXCEPT ![cpu].userenr = 0]
    /\ last' = NoOp
    /\ UNCHANGED <<usage, power_limit, jiffies, deltas, nticks, wchange, wclose,
                   online, govvars, ev, sysfs>>

\* User mode starts the bank with its own events in every slot.
UserProgram(cpu) ==
    /\ pmu[cpu].userenr = 1
    /\ pmu' = [pmu EXCEPT ![cpu].evtype = [s \in Slots |-> NO_EVENT],
                          ![cpu].e = 1]
    /\ last' = NoOp
    /\ UNCHANGED <<usage, power_limit, jiffies, deltas, nticks, wchange, wclose,
                   online, govvars, ev, sysfs>>

\* The run bit is cleared from outside the tick handler.
ExternalStop(cpu) ==
    /\ pmu[cpu].e = 1
    /\ pmu' = [pmu EXCEPT ![cpu].e = 0]
    /\ last' = NoOp
    /\ UNCHANGED <<usage, power_limit, jiffies, deltas, nticks, wchange, wclose,
                   online, govvars, ev, sysfs>>

\* ------------------------------------------------------------ power limiter

\* One cpufreq policy per core class; its related_cpus are the CPUs of the
\* class (lines 174-175).
Policies == {"little", "big"}

related_cpus(p) == {c \in CPUS : IS_A7(c) = (p = "little")}

TaskIds == 1 .. MaxThreads

Min(S) == CHOOSE x \in S : \A y \in S : x <= y

NoTask == [st |-> "none", policy |-> "none", pc |-> "none",
           should_stop |-> FALSE, limit |-> 0, total_usage |-> 0,
           todo |-> {}, iter |-> 0]

Created == {t \in TaskIds : task[t].st # "none"}

GovInitIdle ==
    /\ thread = 0
    /\ task = [t \in TaskIds |-> NoTask]
    /\ gov = [p \in Policies |-> [pc |-> "idle", active |-> FALSE, waits |-> 0]]
    /\ requests = [p \in Policies |-> <<>>]

\* cpufreq_driver_target / __cpufreq_driver_target: the actuator takes the
\* request; by tells who issued it.
cpufreq_driver_target(reqs, p, by, freq) ==
    [reqs EXCEPT ![p] = Append(@, [by |-> by, freq |-> freq])]

\* The decision with <= for <.
Decision_AtLimit(limit, total_usage) ==
    IF limit > 0
    THEN IF limit <= div64_s64(total_usage, POWER_UPDATE_INTERVAL)
         THEN "min" ELSE "max"
    ELSE "max"

\* Lines 182-190: the frequency one iteration asks for.
Decision(limit, total_usage) ==
    IF limit > 0
    THEN IF limit < div64_s64(total_usage, POWER_UPDATE_INTERVAL)
         THEN "min" ELSE "max"
    ELSE "max"

\* Line 172: the loop condition.
PlTop(t) ==
    /\ task[t].st = "run"
    /\ task[t].pc = "top"
    /\ IF task[t].should_stop
       THEN task' = [task EXCEPT ![t].st = "exited", ![t].pc = "done"]
       ELSE /\ task[t].iter < MaxIter
            /\ task' = [task EXCEPT ![t].pc = "sum",
                                    ![t].limit = 0,
                                    ![t].total_usage = 0,
                                    ![t].todo = related_cpus(task[t].policy),
                                    ![t].iter = @ + 1]
    /\ UNCHANGED <<tickvars, thread, gov, requests, ev, sysfs>>

\* The round of for_each_cpu that takes the integral it has read away.
PlSum_Consumes(t) ==
    /\ task[t].st = "run"
    /\ task[t].pc = "sum"
    /\ IF task[t].todo = {}
       THEN /\ task' = [task EXCEPT ![t].pc = "decide"]
            /\ usage' = usage
       ELSE LET cpu == Min(task[t].todo)
            IN  /\ task' = [task EXCEPT
                       ![t].limit = @ + power_limit[cpu],
                       ![t].total_usage = @ + usage[cpu].joule,
                       ![t].todo = @ \ {cpu}]
                /\ usage' = [usage EXCEPT ![cpu].joule = 0]
    /\ UNCHANGED <<power_limit, pmu, jiffies, deltas, last, nticks, wchange,
                   wclose, online, thread, gov, requests, ev, sysfs>>

\* Lines 176-180: one round of for_each_cpu.
PlSum(t) ==
    /\ task[t].st = "run"
    /\ task[t].pc = "sum"
    /\ IF task[t].todo = {}
       THEN task' = [task EXCEPT ![t].pc = "decide"]
       ELSE LET cpu == Min(task[t].todo)
            IN  task' = [task EXCEPT
                    ![t].limit = @ + power_limit[cpu],
                    ![t].total_usage = @ + usage[cpu].joule,
                    ![t].todo = @ \ {cpu}]
    /\ UNCHANGED <<tickvars, thread, gov, requests, ev, sysfs>>

\* Lines 182-190.
PlDecide(t) ==
    /\ task[t].st = "run"
    /\ task[t].pc = "decide"
    /\ requests' = cpufreq_driver_target(requests, task[t].policy, "loop",
                       Decision(task[t].limit, task[t].total_usage))
    /\ task' = [task EXCEPT ![t].pc = "sleep"]
    /\ UNCHANGED <<tickvars, thread, gov, ev, sysfs>>

\* Line 192: msleep(100) returns.
PlSleep(t) ==
    /\ task[t].st = "run"
    /\ task[t].pc = "sleep"
    /\ task' = [task EXCEPT ![t].pc = "top"]
    /\ UNCHANGED <<tickvars, thread, gov, requests, ev, sysfs>>

\* ------------------------------------------------------------ governor

\* Line 201: kthread_run creates the thread and wakes it.
GovStartRun(p) ==
    /\ gov[p].pc = "idle"
    /\ ~gov[p].active
    /\ Created # TaskIds
    /\ LET t == Min(TaskIds \ Created)
       IN  /\ task' = [task EXCEPT ![t] =
                          [NoTask EXCEPT !.st = "run", !.policy = p, !.pc = "top"]]
           /\ thread' = t
    /\ gov' = [gov EXCEPT ![p].pc = "start"]
    /\ requests' = [requests EXCEPT ![p] = <<>>]
    /\ UNCHANGED <<tickvars, ev, sysfs>>

\* What kthread_run returns when it cannot create the thread (IS_ERR is true
\* of it).
ERR_PTR == -1

\* Lines 201-204: kthread_run fails; the handler prints a message and goes on
\* with the pointer it got.
GovStartFail(p) ==
    /\ gov[p].pc = "idle"
    /\ ~gov[p].active
    /\ thread' = ERR_PTR
    /\ gov' = [gov EXCEPT ![p].pc = "start"]
    /\ requests' = [requests EXCEPT ![p] = <<>>]
    /\ UNCHANGED <<tickvars, task, ev, sysfs>>

\* Line 206: run at maximum frequency per default.
GovStartTarget(p) ==
    /\ gov[p].pc = "start"
    /\ requests' = cpufreq_driver_target(requests, p, "gov", "max")
    /\ gov' = [gov EXCEPT ![p].pc = "idle", ![p].active = TRUE]
    /\ UNCHANGED <<tickvars, thread, task, ev, sysfs>>

\* Line 209: kthread_stop(thread) asks the thread to stop and waits for it.
GovStopCall(p) ==
    /\ gov[p].pc = "idle"
    /\ gov[p].active
    /\ thread \in TaskIds
    /\ task[thread].st = "run"
    /\ task' = [task EXCEPT ![thread].should_stop = TRUE]
    /\ gov' = [gov EXCEPT ![p].pc = "stop", ![p].waits = thread]
    /\ UNCHANGED <<tickvars, thread, requests, ev, sysfs>>

\* What kthread_stop does with a pointer to no live thread: it returns, or the
\* kernel faults in the handler.
StaleOutcomes(th) == IF th = ERR_PTR THEN {"faults"} ELSE {"returns", "faults"}

\* Line 209: kthread_stop(thread) when thread is the error value of a failed
\* kthread_run or points to a thread that has exited and been released.
GovStopStale(p) ==
    /\ gov[p].pc = "idle"
    /\ gov[p].active
    /\ thread = ERR_PTR \/ (thread \in TaskIds /\ task[thread].st = "exited")
    /\ \E outcome \in StaleOutcomes(thread) :
          gov' = [gov EXCEPT
                     ![p].pc = IF outcome = "faults" THEN "fault" ELSE "idle",
                     ![p].active = (outcome = "faults"),
                     ![p].waits = thread]
    /\ UNCHANGED <<tickvars, thread, task, requests, ev, sysfs>>

\* kthread_stop returns once the thread has exited.
GovStopReturn(p) ==
    /\ gov[p].pc = "stop"
    /\ task[gov[p].waits].st = "exited"
    /\ gov' = [gov EXCEPT ![p].pc = "idle", ![p].active = FALSE, ![p].waits = 0]
    /\ UNCHANGED <<tickvars, thread, task, requests, ev, sysfs>>

\* ------------------------------------------------------------ sysfs

\* No handler has been called.
NoCall == [op |-> "none", cpu |-> 0, buf |-> <<>>, ret |-> 0]

SysfsInitIdle == sysfs = NoCall

\* A text is the sequence of its characters; past its end comes the NUL.
NUL == "NUL"

CharAt(s, i) == IF i <= Len(s) THEN s[i] ELSE NUL

HexDigits == <<"0", "1", "2", "3", "4", "5", "6", "7", "8", "9",
               "a", "b", "c", "d", "e", "f">>

tolower(c) ==
    CASE c = "A" -> "a" [] c = "B" -> "b" [] c = "C" -> "c" [] c = "D" -> "d"
      [] c = "E" -> "e" [] c = "F" -> "f" [] c = "X" -> "x" [] OTHER -> c

isxdigit(c) == \E i \in 1 .. 16 : HexDigits[i] = tolower(c)

DigitValue(c) == (CHOOSE i \in 1 .. 16 : HexDigits[i] = tolower(c)) - 1

EINVAL == 22

\* The base of the number that starts at s[i], and where its digits start.
parse_integer_fixup_radix(s, i, base) ==
    LET b == IF base # 0 THEN base
             ELSE IF CharAt(s, i) = "0"
                  THEN IF tolower(CharAt(s, i + 1)) = "x"
                          /\ isxdigit(CharAt(s, i + 2))
                       THEN 16 ELSE 8
                  ELSE 10
        skip == b = 16 /\ CharAt(s, i) = "0" /\ tolower(CharAt(s, i + 1)) = "x"
    IN  [i |-> IF skip THEN i + 2 ELSE i, base |-> b]

\* The digits of the base from s[i] on: how many there are (rv) and their
\* value (res).  The texts here are short of the 64-bit range.
RECURSIVE parse_integer(_, _, _, _, _)
parse_integer(s, i, base, rv, res) ==
    LET c == CharAt(s, i)
    IN  IF isxdigit(c) /\ DigitValue(c) < base
        THEN parse_integer(s, i + 1, base, rv + 1, res * base + DigitValue(c))
        ELSE [rv |-> rv, res |-> res]

\* A number, then at most one newline, then the end.
kstrtoull_digits(s, i, base) ==
    LET fix == parse_integer_fixup_radix(s, i, base)
        p == parse_integer(s, fix.i, fix.base, 0, 0)
        j == fix.i + p.rv
        k == IF CharAt(s, j) = "\n" THEN j + 1 ELSE j
    IN  IF p.rv = 0 THEN [ret |-> -EINVAL, res |-> 0]
        ELSE IF CharAt(s, k) # NUL THEN [ret |-> -EINVAL, res |-> 0]
        ELSE [ret |-> 0, res |-> p.res]

kstrtoull(s, i, base) ==
    kstrtoull_digits(s, IF CharAt(s, i) = "+" THEN i + 1 ELSE i, base)

\* kstrtos64 is kstrtoll: ret is 0 and res the number, or ret is negative.
kstrtos64(s, base) ==
    IF CharAt(s, 1) = "-"
    THEN LET r == kstrtoull_digits(s, 2, base)
         IN  IF r.ret < 0 THEN r ELSE [ret |-> 0, res |-> -r.res]
    ELSE kstrtoull(s, 1, base)

RECURSIVE Decimal(_)
Decimal(n) ==
    IF n < 10 THEN <<HexDigits[n + 1]>>
    ELSE Append(Decimal(n \div 10), HexDigits[(n % 10) + 1])

\* sprintf of %lld.
sprintf_lld(n) == IF n < 0 THEN <<"-">> \o Decimal(-n) ELSE Decimal(n)

\* The store that does not look at what kstrtos64 returned.
store_power_limit_Unchecked(limits, id, buf) ==
    LET r == kstrtos64(buf, 0)
    IN  [limit |-> [limits EXCEPT ![id] = r.res], ret |-> Len(buf)]

\* Lines 312-325: the budgets after the write of buf to the file of CPU id,
\* and what the write returns.
store_power_limit(limits, id, buf) ==
    LET r == kstrtos64(buf, 0)
        count == Len(buf)
    IN  IF r.ret >= 0
        THEN [limit |-> [limits EXCEPT ![id] = r.res], ret |-> count]
        ELSE [limit |-> limits, ret |-> r.ret]

\* Lines 303-310.
show_power_limit(id) == sprintf_lld(power_limit[id]) \o <<"\n">>

DisabledText ==
    <<"m", "o", "n", "i", "t", "o", "r", "i", "n", "g", " ",
      "d", "i", "s", "a", "b", "l", "e", "d", " ",
      "(", "U", "S", "E", "R", "E", "N", "R", " ", "=", " ", "1", ")", "\n">>

\* Lines 288-299.
show_power_status(id) ==
    IF usage[id].disabled
    THEN DisabledText
    ELSE sprintf_lld(usage[id].watt) \o <<" ", "n", "W", "\n">>

\* Lines 110-118.
RECURSIVE TotalLoop(_)
TotalLoop(cpus) ==
    IF cpus = {} THEN 0
    ELSE LET cpu == Min(cpus)
         IN  usage[cpu].joule + TotalLoop(cpus \ {cpu})

total_current_energy_usage == TotalLoop(online)

\* What is written to a power_limit file.
Bufs ==
    { <<"5", "0", "0">>, <<"5", "0", "0", "\n">>, <<"-", "7">>, <<"0">>,
      <<"0", "x", "1", "F">>, <<"0", "1", "0">>, <<"+", "5">>,
      <<>>, <<"a">>, <<"5", " ">>, <<"-">>, <<"0", "8">>, <<"0", "x">>,
      <<"5", "\n", "\n">> }

StoreLimit(c, buf) ==
    /\ LET r == store_power_limit(power_limit, c, buf)
       IN  /\ power_limit' = r.limit
           /\ sysfs' = [op |-> "store", cpu |-> c, buf |-> buf, ret |-> r.ret]
    /\ UNCHANGED <<usage, pmu, jiffies, deltas, last, nticks, wchange, wclose,
                   online, govvars, ev>>

ShowLimit(c) ==
    /\ LET text == show_power_limit(c)
       IN  sysfs' = [op |-> "show_limit", cpu |-> c, buf |-> text,
                     ret |-> Len(text)]
    /\ UNCHANGED <<tickvars, govvars, ev>>

ShowStatus(c) ==
    /\ LET text == show_power_status(c)
       IN  sysfs' = [op |-> "show_status", cpu |-> c, buf |-> text,
                     ret |-> Len(text)]
    /\ UNCHANGED <<tickvars, govvars, ev>>

TotalUsage ==
    /\ sysfs' = [op |-> "total", cpu |-> 0, buf |-> <<>>,
                 ret |-> total_current_energy_usage]
    /\ UNCHANGED <<tickvars, govvars, ev>>

\* ------------------------------------------------------------ SpecEval state
\* ev holds a CPU, a model (the CPU's model with its terms reordered), how
\* often each of the model's events occurred (the cycles under EM_PMCCNTR),
\* and the result of evaluate_model once it has run.

\* Transpositions applied to the terms of the model in one behaviour.
MaxSwaps == 2

Terms(model) == 1 .. (Len(model) - 1)

EventsOf(model) == {model[k].event : k \in Terms(model)}

\* The position of an event in a model.
TermOf(model, e) == CHOOSE k \in Terms(model) : model[k].event = e

EvIdle == [cpu |-> 0, model |-> <<>>, occ |-> <<>>, swaps |-> 0,
           done |-> FALSE, result |-> 0]

EvalInitIdle == ev = EvIdle

\* An event of the set occurred occurs a number of times that tells it from
\* the other events of the model; the other events do not occur.
Occurrences(model, occurred) ==
    [e \in EventsOf(model) |->
        IF e \in occurred THEN MaxTermCount + TermOf(model, e) ELSE 0]

EvalInit ==
    /\ TickInit
    /\ GovInitIdle
    /\ SysfsInitIdle
    /\ \E cpu \in {3, 4} :
         \E occurred \in SUBSET EventsOf(energy_model(cpu)) :
            ev = [cpu |-> cpu, model |-> energy_model(cpu),
                  occ |-> Occurrences(energy_model(cpu), occurred),
                  swaps |-> 0, done |-> FALSE, result |-> 0]

\* The terms at positions a and b change places (EM_LAST stays last).
SwapTerms(a, b) ==
    /\ ~ev.done
    /\ ev.swaps < MaxSwaps
    /\ a \in Terms(ev.model)
    /\ b \in Terms(ev.model)
    /\ a < b
    /\ ev' = [ev EXCEPT !.model = [@ EXCEPT ![a] = ev.model[b],
                                           ![b] = ev.model[a]],
                        !.swaps = @ + 1]
    /\ UNCHANGED <<tickvars, govvars, sysfs>>

\* A stopped, reset bank runs while the events occur: each slot counts the
\* occurrences of the event programmed into it, the cycle counter the cycles.
CountOccurrences(bank, occ) ==
    [bank EXCEPT
        !.evcnt = [s \in Slots |->
                      IF bank.evtype[s] \in DOMAIN occ
                      THEN occ[bank.evtype[s]] ELSE 0],
        !.ccnt = occ[EM_PMCCNTR]]

\* initialize_pmu programs the bank for the model, the events occur, and
\* evaluate_model reads the bank.
Evaluate ==
    /\ ev.cpu # 0
    /\ ~ev.done
    /\ LET programmed == initialize_pmu(BootBank(0), ev.model)
           counted == CountOccurrences(programmed, ev.occ)
       IN  ev' = [ev EXCEPT !.done = TRUE,
                            !.result = evaluate_model(counted, ev.model)]
    /\ UNCHANGED <<tickvars, govvars, sysfs>>

EvalNext ==
    \/ \E a, b \in 1 .. 7 : SwapTerms(a, b)
    \/ Evaluate

SpecEval == EvalInit /\ [][EvalNext]_vars

\* In SpecMapping at most one event of the model occurs.
MappingInit ==
    /\ TickInit
    /\ GovInitIdle
    /\ SysfsInitIdle
    /\ \E cpu \in {3, 4} :
         \E occurred \in SUBSET EventsOf(energy_model(cpu)) :
            /\ Cardinality(occurred) <= 1
            /\ ev = [cpu |-> cpu, model |-> energy_model(cpu),
                     occ |-> Occurrences(energy_model(cpu), occurred),
                     swaps |-> 0, done |-> FALSE, result |-> 0]

SpecMapping == MappingInit /\ [][EvalNext]_vars

\* ------------------------------------------------------------ specifications

Init == TickInit /\ GovInitIdle /\ EvalInitIdle /\ SysfsInitIdle

Next ==
    \/ \E c \in online : Tick(c)
    \/ \E step \in ClockSteps : Advance(step)
    \/ \E c \in online, s \in CountedSlots : CountEvent(c, s)
    \/ \E c \in online : CountCycle(c)
    \/ \E c \in online : UserEnable(c)
    \/ \E c \in online : UserRevoke(c)
    \/ \E c \in online : UserProgram(c)
    \/ \E c \in online : ExternalStop(c)

Spec == Init /\ [][Next]_vars

\* In SpecGov the accumulators and budgets are what ticks and budget writes
\* have left.  A scenario gives the budgets and the integrals of the lower
\* and the higher CPU of each domain.
Scenarios ==
    { [la |-> 500,  lb |-> 500, ja |-> 600000,  jb |-> 600000],
      [la |-> 500,  lb |-> 500, ja |-> 400000,  jb |-> 400000],
      [la |-> 500,  lb |-> 500, ja |-> 400000,  jb |-> 600000],
      [la |-> 500,  lb |-> 500, ja |-> 401000,  jb |-> 600000],
      [la |-> 500,  lb |-> 500, ja |-> -600000, jb |-> 400000],
      [la |-> 500,  lb |-> 0,   ja |-> 600000,  jb |-> 600000],
      [la |-> 0,    lb |-> 0,   ja |-> 600000,  jb |-> 600000],
      [la |-> -500, lb |-> 500, ja |-> 600000,  jb |-> 600000],
      [la |-> -500, lb |-> 0,   ja |-> -600000, jb |-> 400000] }

IsLower(c) == c = Min(related_cpus(IF IS_A7(c) THEN "little" ELSE "big"))

GovInit ==
    /\ \E sc \in Scenarios :
          /\ power_limit = [c \in CPUS |-> IF IsLower(c) THEN sc.la ELSE sc.lb]
          /\ usage = [c \in CPUS |->
                         [ZeroUsage EXCEPT
                             !.joule = IF IsLower(c) THEN sc.ja ELSE sc.jb]]
    /\ pmu = [c \in CPUS |-> BootBank(1)]
    /\ jiffies = 0
    /\ deltas = [c \in CPUS |-> usage[c].joule]
    /\ last = NoOp
    /\ nticks = 0
    /\ wchange = [c \in CPUS |-> -1]
    /\ wclose = [c \in CPUS |-> -1]
    /\ online = CPUS
    /\ GovInitIdle
    /\ EvalInitIdle
    /\ SysfsInitIdle

GovNext ==
    \/ \E p \in Policies : GovStartRun(p)
    \/ \E p \in Policies : GovStartTarget(p)
    \/ \E p \in Policies : GovStopCall(p)
    \/ \E p \in Policies : GovStopReturn(p)
    \/ \E t \in TaskIds : PlTop(t)
    \/ \E t \in TaskIds : PlSum(t)
    \/ \E t \in TaskIds : PlDecide(t)
    \/ \E t \in TaskIds : PlSleep(t)

SpecGov == GovInit /\ [][GovNext]_vars

\* In SpecStop the policies are started and stopped in any order, kthread_run
\* may fail, and kthread_stop is called with whatever thread holds.  Both
\* domains are over their budgets.
StopScenario == [la |-> 500, lb |-> 500, ja |-> 600000, jb |-> 600000]

StopInit == GovInit /\ power_limit[2] = StopScenario.la
                    /\ power_limit[3] = StopScenario.lb
                    /\ usage[2].joule = StopScenario.ja
                    /\ usage[3].joule = StopScenario.jb

StopNext ==
    \/ GovNext
    \/ \E p \in Policies : GovStartFail(p)
    \/ \E p \in Policies : GovStopStale(p)

SpecStop == StopInit /\ [][StopNext]_vars

\* In SpecSysfs the files of the CPUs are read and written.  The budgets are
\* what power_init left; the accumulator of one CPU is what ticks have left.
SysfsUsages ==
    { ZeroUsage,
      [joule |-> 0, watt |-> 0, time |-> 0, disabled |-> TRUE],
      [joule |-> 1200, watt |-> 32521, time |-> 101, disabled |-> FALSE],
      [joule |-> -40, watt |-> -7, time |-> 101, disabled |-> FALSE] }

\* The CPUs whose files are used: one of each class.
SysfsCpus == {3, 4}

SysfsInit ==
    /\ \E u \in SysfsUsages :
          usage = [c \in CPUS |-> IF c = 3 THEN u ELSE ZeroUsage]
    /\ power_limit = [c \in CPUS |-> 0]
    /\ pmu = [c \in CPUS |-> BootBank(1)]
    /\ jiffies = 0
    /\ deltas = [c \in CPUS |-> usage[c].joule]
    /\ last = NoOp
    /\ nticks = 0
    /\ wchange = [c \in CPUS |-> -1]
    /\ wclose = [c \in CPUS |-> -1]
    /\ online = CPUS
    /\ GovInitIdle
    /\ EvalInitIdle
    /\ SysfsInitIdle

SysfsNext ==
    \/ \E c \in SysfsCpus, buf \in Bufs : StoreLimit(c, buf)
    \/ \E c \in SysfsCpus : ShowLimit(c)
    \/ \E c \in SysfsCpus : ShowStatus(c)
    \/ TotalUsage

SpecSysfs == SysfsInit /\ [][SysfsNext]_vars

\* In SpecFrame a CPU of each class is online and ticks, the limiter loops of
\* the policies run, and the accumulators and budgets are queried, in any
\* order.  Every CPU has a budget; the bank of the little CPU counts cycles,
\* and user-mode access may be switched on.
FrameOnline == {3, 4}

FrameBudget == 500

\* The clock when the first tick comes.
FrameJiffies == 101

\* The policy whose limiter loop runs.
FramePolicies == {"little"}

FrameInit ==
    /\ usage = [c \in CPUS |-> ZeroUsage]
    /\ power_limit = [c \in CPUS |-> FrameBudget]
    /\ online = FrameOnline
    /\ pmu = [c \in CPUS |-> BootBank(0)]
    /\ jiffies = FrameJiffies
    /\ deltas = [c \in CPUS |-> 0]
    /\ last = NoOp
    /\ nticks = 0
    /\ wchange = [c \in CPUS |-> -1]
    /\ wclose = [c \in CPUS |-> -1]
    /\ GovInitIdle
    /\ EvalInitIdle
    /\ SysfsInitIdle

FrameNext ==
    \/ \E c \in online : Tick(c)
    \/ \E c \in related_cpus("little") \cap online : CountCycle(c)
    \/ \E c \in online : UserEnable(c)
    \/ \E p \in FramePolicies : GovStartRun(p)
    \/ \E p \in FramePolicies : GovStartTarget(p)
    \/ \E t \in TaskIds : PlTop(t)
    \/ \E t \in TaskIds : PlSum(t)
    \/ \E t \in TaskIds : PlDecide(t)
    \/ \E t \in TaskIds : PlSleep(t)
    \/ \E c \in online : ShowLimit(c)
    \/ \E c \in online : ShowStatus(c)
    \/ TotalUsage

SpecFrame == FrameInit /\ [][FrameNext]_vars

\* ------------------------------------------------------------ claims on Spec

\* The step is a tick of power_evaluate_pmu on cpu.
TickOf(cpu) == nticks' = nticks + 1 /\ last'.cpu = cpu

\* The events of the terms of a model that are bound to a slot, in model order.
SlotEvents(model) ==
    LET Bound(t) == t.event # EM_PMCCNTR /\ t.event # EM_LAST
        sel == SelectSeq(model, Bound)
    IN  [k \in 1 .. Len(sel) |-> sel[k].event]

\* C1: whenever monitoring_disabled (usage->disabled) is true, energy_integral
\* (joule) and average_power (watt) are zero.
C1_DisabledZero ==
    \A c \in CPUS :
        usage[c].disabled => usage[c].joule = 0 /\ usage[c].watt = 0

\* A tick has found user-mode access on a bank that had counted and whose
\* accumulator had been written, and has set the flag.
C1_Witness ==
    /\ last.op = "tick"
    /\ last.branch = "user"
    /\ usage[last.cpu].disabled
    /\ Counted(pmu[last.cpu]) > 0
    /\ usage[last.cpu].time > 0

\* C3: a tick that does not take the user-access exit, on either branch, ends
\* with every programmable slot and the cycle counter at zero and the run bit
\* set.
C3_CleanRunning ==
    (last.op = "tick" /\ last.branch \in {"eval", "init"}) =>
        /\ \A s \in Slots : pmu[last.cpu].evcnt[s] = 0
        /\ pmu[last.cpu].ccnt = 0
        /\ pmu[last.cpu].e = 1

\* A tick evaluated counters that had counted.
C3_Witness ==
    /\ last.op = "tick"
    /\ last.branch = "eval"
    /\ last.delta # 0

\* C4: after a steady tick energy_integral is the sum of the deltas of the
\* ticks since the last window close (or re-initialization); the closing
\* tick's delta belongs to the closed window.
C4_Additive ==
    (last.op = "tick" /\ last.branch = "eval") =>
        usage[last.cpu].joule = deltas[last.cpu]

\* A steady tick added a delta to an integral that already held another one,
\* after a window had closed.
C4_Witness ==
    /\ last.op = "tick"
    /\ last.branch = "eval"
    /\ ~last.closed
    /\ last.delta # 0
    /\ usage[last.cpu].joule # last.delta
    /\ usage[last.cpu].joule # 0
    /\ wclose[last.cpu] >= 0

\* C5: a steady tick closes the window iff more than 1000 ms have elapsed
\* since window_start; closing sets average_power to the integral divided by
\* the elapsed time, truncated toward zero, zeroes the integral and stamps
\* window_start; otherwise average_power and window_start are unchanged.
C5_WindowClose ==
    [][\A c \in CPUS :
        (TickOf(c) /\ last'.branch = "eval") =>
            LET elapsed == MSEC_PER_JIFFY * (jiffies - usage[c].time)
                n == usage[c].joule + last'.delta
                w == usage'[c].watt
            IN  /\ last'.closed = (elapsed > 1000)
                /\ IF elapsed > 1000
                   THEN /\ Abs(w) * elapsed <= Abs(n)
                        /\ Abs(n) < (Abs(w) + 1) * elapsed
                        /\ (w # 0 => ((w < 0) = (n < 0)))
                        /\ usage'[c].joule = 0
                        /\ usage'[c].time = jiffies
                   ELSE /\ usage'[c].watt = usage[c].watt
                        /\ usage'[c].time = usage[c].time
                        /\ usage'[c].joule = n]_vars

\* A window closed on a negative integral that is no multiple of the elapsed
\* time.
C5_Witness ==
    /\ last.op = "tick"
    /\ last.branch = "eval"
    /\ last.closed
    /\ usage[last.cpu].watt < 0

\* A steady tick came exactly 1000 ms after window_start and left the window
\* open.
C5_WitnessBoundary ==
    /\ last.op = "tick"
    /\ last.branch = "eval"
    /\ ~last.closed
    /\ MSEC_PER_JIFFY * (jiffies - usage[last.cpu].time) = 1000

C7_IdleTickKeeps ==
    [][\A c \in CPUS :
        ( /\ TickOf(c)
          /\ pmu[c].userenr = 0
          /\ pmu[c].e = 1
          /\ Counted(pmu[c]) = 0
          /\ MSEC_PER_JIFFY * (jiffies - usage[c].time) <= 1000 ) =>
            /\ usage'[c].watt = usage[c].watt
            /\ usage'[c].joule = usage[c].joule]_vars

\* Such a tick has run on an accumulator that held a power and an integral,
\* some time into the window.
C7_Witness ==
    /\ last.op = "tick"
    /\ last.branch = "eval"
    /\ last.delta = 0
    /\ ~last.closed
    /\ usage[last.cpu].joule # 0
    /\ usage[last.cpu].watt # 0

\* C8: a tick that finds user-mode access off and the bank not running
\* programs the k-th slot-bound term's event into slot k and touches no other
\* slot (the cycle-counter term takes none), zeroes energy_integral and
\* average_power, stamps window_start and leaves the bank running.
C8_Reinitialize ==
    [][\A c \in CPUS :
        (TickOf(c) /\ pmu[c].userenr = 0 /\ pmu[c].e = 0) =>
            LET evs == SlotEvents(energy_model(c))
            IN  /\ last'.branch = "init"
                /\ \A s \in Slots :
                      pmu'[c].evtype[s] =
                          IF s < Len(evs) THEN evs[s + 1] ELSE pmu[c].evtype[s]
                /\ usage'[c].joule = 0
                /\ usage'[c].watt = 0
                /\ usage'[c].time = jiffies
                /\ pmu'[c].e = 1]_vars

\* The big core's bank was re-initialized after a window had closed: the term
\* behind the cycle-counter term sits in slot 5.
C8_Witness ==
    /\ last.op = "tick"
    /\ last.branch = "init"
    /\ ~IS_A7(last.cpu)
    /\ pmu[last.cpu].evtype[5] = VFP_SPEC
    /\ usage[last.cpu].time > 0

\* The little core's bank was re-initialized: four slots are programmed.
C8_WitnessLittle ==
    /\ last.op = "tick"
    /\ last.branch = "init"
    /\ IS_A7(last.cpu)
    /\ pmu[last.cpu].evtype[3] = L2D_CACHE_WB
    /\ pmu[last.cpu].evtype[4] = NO_EVENT

\* ------------------------------------------------------------ claims on SpecGov

RECURSIVE SumOver(_, _)
SumOver(f, S) ==
    IF S = {} THEN 0
    ELSE LET x == CHOOSE y \in S : TRUE
         IN  f[x] + SumOver(f, S \ {x})

\* n / d for d > 0, rounded toward zero.
TruncToZero(n, d) == IF n >= 0 THEN n \div d ELSE -((-n) \div d)

LastRequest(p) == requests[p][Len(requests[p])]

\* The step is a step of thread t (and not a kthread_stop for it).
ThreadStep(t) ==
    /\ task[t].st = "run"
    /\ task'[t] # task[t]
    /\ task'[t].should_stop = task[t].should_stop

\* C2: an iteration of the limiter issues exactly one request: the minimum
\* frequency iff limit > 0 and limit < trunc(total_usage / 1000), where limit
\* sums the budgets and total_usage the integrals of the domain's CPUs; the
\* maximum frequency otherwise.  The other steps of the loop issue none.
C2_OneRequest ==
    [][\A t \in TaskIds :
        ThreadStep(t) =>
            LET p == task[t].policy
                limit == SumOver(power_limit, related_cpus(p))
                joules == [c \in CPUS |-> usage[c].joule]
                total == SumOver(joules, related_cpus(p))
                want == IF limit > 0 /\ limit < TruncToZero(total, 1000)
                        THEN "min" ELSE "max"
            IN  IF task[t].pc = "decide"
                THEN requests' = [requests EXCEPT ![p] =
                                     Append(@, [by |-> "loop", freq |-> want])]
                ELSE requests' = requests]_vars

\* Budgets {500, 500} and a usage rate of 1200: the iteration asked for the
\* minimum frequency.
C2_Witness ==
    \E t \in TaskIds :
        /\ task[t].pc = "sleep"
        /\ \A c \in related_cpus(task[t].policy) : power_limit[c] = 500
        /\ task[t].limit = 1000
        /\ task[t].total_usage = 1200000
        /\ LastRequest(task[t].policy) = [by |-> "loop", freq |-> "min"]

\* Budgets {500, 500} and a usage rate of 800: the maximum frequency.
C2_WitnessMax ==
    \E t \in TaskIds :
        /\ task[t].pc = "sleep"
        /\ task[t].limit = 1000
        /\ task[t].total_usage = 800000
        /\ LastRequest(task[t].policy) = [by |-> "loop", freq |-> "max"]

RECURSIVE WeightedSum(_, _, _)
WeightedSum(model, occ, K) ==
    IF K = {} THEN 0
    ELSE LET k == CHOOSE x \in K : TRUE
         IN  model[k].weight * occ[model[k].event]
                 + WeightedSum(model, occ, K \ {k})

\* C9: evaluate_model returns the signed sum over the terms of weight times
\* count, without clamping, whatever the order of the model's terms.
C9_WeightedSum ==
    ev.done =>
        ev.result = WeightedSum(energy_model(ev.cpu), ev.occ,
                                Terms(energy_model(ev.cpu)))

\* The big core's model was evaluated with its cycle-counter term moved to
\* another position, the term behind it counted, and the sum is negative.
C9_Witness ==
    /\ ev.done
    /\ ev.cpu = 4
    /\ ev.model # energy_model_a15
    /\ ev.model[6].event # EM_PMCCNTR
    /\ ev.occ[VFP_SPEC] > 0
    /\ ev.occ[EM_PMCCNTR] > 0
    /\ ev.result < 0

\* ------------------------------------------------------------ claims on SpecStop

\* The sleep of thread t ends because its 100 ms have passed: msleep returns
\* and the loop goes back to its condition.
SleepTimesOut(t) ==
    /\ task[t].st = "run"
    /\ task[t].pc = "sleep"
    /\ task'[t].pc = "top"

\* C11: a stop request that reaches the limiter loop in its sleep ends the
\* sleep: the sleep is a cancellation point, so a thread that has been asked
\* to stop leaves the loop without sitting out the rest of its sleep.
C11_StopEndsSleep ==
    [][\A t \in TaskIds : task[t].should_stop => ~SleepTimesOut(t)]_vars

\* All loops started for policy p have exited.
LoopsExited(p) ==
    \A t \in TaskIds : task[t].policy = p => task[t].st = "exited"

\* The stop handler of policy p has returned after the last start.
StopCompleted(p) ==
    /\ gov[p].pc = "idle"
    /\ ~gov[p].active
    /\ requests[p] # <<>>

\* C12: once the stop of a policy has completed and its loop has exited, the
\* last frequency request issued for the policy is not the minimum frequency.
C12_NotLeftAtMin ==
    \A p \in Policies :
        (StopCompleted(p) /\ LoopsExited(p)) => LastRequest(p).freq # "min"

\* C14: the stop of a policy stops the loop that was started for that policy,
\* never a thread that has exited or was never created, and after every
\* started policy has been stopped no loop is running.
C14_StopsOwnLoop ==
    /\ \A p \in Policies :
          gov[p].waits # 0 =>
              /\ gov[p].pc = "stop"
              /\ gov[p].waits \in TaskIds
              /\ task[gov[p].waits].policy = p
    /\ (\A p \in Policies : gov[p].pc = "idle" /\ ~gov[p].active) =>
          \A t \in TaskIds : task[t].st # "run"

\* ------------------------------------------------------------ more claims on Spec

Numbers ==
    { <<<<"5", "0", "0">>, 500>>, <<<<"5", "0", "0", "\n">>, 500>>,
      <<<<"-", "7">>, -7>>, <<<<"0">>, 0>>, <<<<"0", "x", "1", "F">>, 31>>,
      <<<<"0", "1", "0">>, 8>>, <<<<"+", "5">>, 5>> }

\* The step is a write to a power_limit file.
StoreStep ==
    /\ sysfs'.op = "store"
    /\ sysfs' # sysfs \/ power_limit' # power_limit

\* C15: a write whose text is not a number keeps every budget as it was and
\* returns a negative value; a write whose text is a number stores that number
\* as the budget of the CPU of the file, keeps the budgets of the other CPUs,
\* and returns the length of the text.
C15_StoreLimit ==
    [][StoreStep =>
        LET c == sysfs'.cpu
            buf == sysfs'.buf
        IN  IF \E n \in Numbers : n[1] = buf
            THEN LET n == CHOOSE n \in Numbers : n[1] = buf
                 IN  /\ power_limit' = [power_limit EXCEPT ![c] = n[2]]
                     /\ sysfs'.ret = Len(buf)
            ELSE /\ power_limit' = power_limit
                 /\ sysfs'.ret < 0]_vars

\* A write that is not a number has been refused on a CPU that has a budget,
\* while another CPU has another budget.
C15_Witness ==
    /\ sysfs.op = "store"
    /\ sysfs.ret < 0
    /\ power_limit[sysfs.cpu] = 500
    /\ \E c \in CPUS : power_limit[c] = -7

\* ------------------------------------------------------------ slot indices (Spec)

\* The model positions (from 0) of the terms of a model, EM_LAST left out.
Positions(model) == 0 .. (Len(model) - 2)

\* The term at position i comes after the cycle-counter term.
AfterCycleTerm(model, i) ==
    \E k \in Positions(model) : k < i /\ model[k + 1].event = EM_PMCCNTR

\* C16 as stated: after the initialization the event term at model position i
\* sits in slot i, before and after the cycle-counter term, and the slot whose
\* index is the position of the cycle-counter term holds no event of the model.
C16_Original ==
    (last.op = "tick" /\ last.branch = "init") =>
        LET model == energy_model(last.cpu)
            bank == pmu[last.cpu]
        IN  \A i \in Positions(model) \cap Slots :
                IF model[i + 1].event = EM_PMCCNTR
                THEN bank.evtype[i] \notin EventsOf(model)
                ELSE bank.evtype[i] = model[i + 1].event

\* C16: after the initialization the event term at model position i sits in
\* slot i if it comes before the cycle-counter term and in slot i - 1 if it
\* comes after it: the indices are closed up, and the slot whose index is the
\* position of the cycle-counter term holds the event of the next term.
C16_ClosedUp ==
    (last.op = "tick" /\ last.branch = "init") =>
        LET model == energy_model(last.cpu)
            bank == pmu[last.cpu]
        IN  \A i \in Positions(model) :
                model[i + 1].event # EM_PMCCNTR =>
                    LET slot == IF AfterCycleTerm(model, i) THEN i - 1 ELSE i
                    IN  slot \in Slots /\ bank.evtype[slot] = model[i + 1].event

\* The first tick of the big core has programmed its bank: the term at
\* position 6 sits in slot 5, behind the term at position 4 in slot 4.
C16_Witness ==
    /\ last.op = "tick"
    /\ last.branch = "init"
    /\ nticks = 1
    /\ last.cpu = 4
    /\ pmu[4].evtype[4] = L2D_CACHE_WB
    /\ pmu[4].evtype[5] = VFP_SPEC

\* C17: the first tick of a CPU that does not leave by the user-access exit
\* takes the initialization: it adds no delta to energy_integral and leaves the
\* slots programmed with the events of the CPU's model, also when the run bit
\* was set before it.
C17_FirstTickInitializes ==
    (last.op = "tick" /\ nticks = 1 /\ last.branch # "user") =>
        LET events == SlotEvents(energy_model(last.cpu))
        IN  /\ last.branch = "init"
            /\ last.delta = 0
            /\ \A k \in 1 .. Len(events) :
                  pmu[last.cpu].evtype[k - 1] = events[k]

\* C18: a tick that finds user-mode access enabled leaves the counter bank as
\* it was (run bit, slot events, slot counts, cycle counter) and window_start
\* as it was; it sets energy_integral = 0, average_power = 0 and
\* monitoring_disabled = true and nothing else.
C18_UserExitFrame ==
    [][\A c \in CPUS :
        (TickOf(c) /\ pmu[c].userenr # 0) =>
            /\ last'.branch = "user"
            /\ pmu' = pmu
            /\ usage' = [usage EXCEPT ![c] =
                            [joule |-> 0, watt |-> 0, time |-> usage[c].time,
                             disabled |-> TRUE]]]_vars

\* A tick has left by the user-access exit on a bank that this code had
\* programmed and that is still running, with its counts and window_start.
C18_Witness ==
    /\ last.op = "tick"
    /\ last.branch = "user"
    /\ pmu[last.cpu].e = 1
    /\ pmu[last.cpu].evtype[0] # NO_EVENT
    /\ pmu[last.cpu].evcnt[1] > 0
    /\ usage[last.cpu].time > 0

\* ------------------------------------------------------------ claims on SpecFrame

\* C19: the accumulator of a CPU (energy_integral, average_power, window_start,
\* monitoring_disabled) is changed by the tick of that CPU only: the steps of
\* the limiter loop, total_current_energy_usage and the status and limit
\* queries change no accumulator, a tick changes no other CPU's accumulator,
\* and none of these steps changes a budget.
C19_SingleWriter ==
    [][/\ \A c \in CPUS : usage'[c] # usage[c] => TickOf(c)
       /\ power_limit' = power_limit]_vars

\* The limiter has summed an integral that the little CPU's ticks had written
\* and has gone to sleep, total_current_energy_usage has returned the same
\* integral, and then the big CPU has ticked and written its own accumulator.
C19_Witness ==
    /\ \E t \in TaskIds :
          /\ task[t].pc = "sleep"
          /\ task[t].total_usage # 0
          /\ task[t].total_usage = usage[3].joule
    /\ sysfs.op = "total"
    /\ sysfs.ret = usage[3].joule
    /\ last.op = "tick"
    /\ last.cpu = 4
    /\ usage[4] # ZeroUsage

\* ------------------------------------------------------------ more claims on SpecEval

\* The bank with one count in slot s and none elsewhere.
OneInSlot(bank, s) ==
    [bank EXCEPT !.evcnt = [x \in Slots |-> IF x = s THEN 1 ELSE 0],
                 !.ccnt = 0]

\* The bank with one cycle counted and no event.
OneCycle(bank) ==
    [bank EXCEPT !.evcnt = [x \in Slots |-> 0], !.ccnt = 1]

\* The terms of a model that are bound to a slot.
BoundTerms(model) == {k \in Terms(model) : model[k].event # EM_PMCCNTR}

\* C20: initialize_pmu and evaluate_model agree on the slot of every term: a
\* count in the slot that initialize_pmu programmed with a term's event is
\* weighted by evaluate_model with that term's weight and with no other, a slot
\* that initialize_pmu left alone is not read, every slot-bound term has a slot
\* of its own among slots 0..5, and a cycle count is weighted with the weight
\* of the cycle-counter term.
C20_SameMapping ==
    ev.done =>
        LET model == ev.model
            bank == initialize_pmu(BootBank(0), model)
            programmed == {s \in Slots : bank.evtype[s] # NO_EVENT}
        IN  /\ \A s \in Slots :
                  evaluate_model(OneInSlot(bank, s), model) =
                      IF s \in programmed
                      THEN model[TermOf(model, bank.evtype[s])].weight
                      ELSE 0
            /\ \A k \in BoundTerms(model) :
                  \E s \in Slots : bank.evtype[s] = model[k].event
            /\ Cardinality(programmed) = Cardinality(BoundTerms(model))
            /\ evaluate_model(OneCycle(bank), model) =
                  model[TermOf(model, EM_PMCCNTR)].weight

\* The big core's model in its declared order has been programmed and
\* evaluated with the event of its last term counted.
C20_Witness ==
    /\ ev.done
    /\ ev.cpu = 4
    /\ ev.model = energy_model_a15
    /\ ev.occ[VFP_SPEC] > 0
    /\ ev.result # 0

====
